---- MODULE Spec2Model ----
(***************************************************************************)
(* LinearRegressor (fit_simple, fit_multiple, predict), evaluate_regression *)
(* and the per-dataset loop of anscombe_quartet, from                       *)
(* src/lab_2_3_LinearRegression.py.                                          *)
(*                                                                           *)
(* float64 values are modelled as exact rationals <<n, d>> in lowest terms   *)
(* with d > 0, extended by the IEEE specials <<1, 0>> (+inf), <<-1, 0>>      *)
(* (-inf) and <<0, 0>> (nan).  Rounding of finite results is not modelled,   *)
(* except where it decides control flow: the zero-pivot test inside          *)
(* numpy.linalg.inv (see Getrf).  The sign of zero is not modelled.          *)
(*                                                                           *)
(* A numpy array is [kind |-> "ndarray", shape, data] with data in row-major *)
(* order; a float64 scalar is the 0-d array (shape <<>>).                    *)
(***************************************************************************)
EXTENDS Integers, Sequences, FiniteSets, TLC

VARIABLES models, last

vars == <<models, last>>

-----------------------------------------------------------------------------
(* float64 arithmetic *)

Abs(n) == IF n < 0 THEN -n ELSE n

Sign(n) == IF n > 0 THEN 1 ELSE IF n < 0 THEN -1 ELSE 0

RECURSIVE GCD(_, _)
GCD(a, b) == IF b = 0 THEN a ELSE GCD(b, a % b)

Norm(n, d) ==
    IF d = 0 THEN <<Sign(n), 0>>
    ELSE LET g == GCD(Abs(n), Abs(d))
             s == Sign(d)
         IN  <<(s * n) \div g, (s * d) \div g>>

Rat(n) == <<n, 1>>

NaN == <<0, 0>>
PosInf == <<1, 0>>
NegInf == <<-1, 0>>
Zero == <<0, 1>>
One == <<1, 1>>

IsNaN(x) == x = NaN
IsInf(x) == x[2] = 0 /\ x[1] # 0
IsFinite(x) == x[2] # 0

Add(x, y) ==
    IF IsNaN(x) \/ IsNaN(y) THEN NaN
    ELSE IF IsInf(x) /\ IsInf(y) THEN (IF x = y THEN x ELSE NaN)
    ELSE IF IsInf(x) THEN x
    ELSE IF IsInf(y) THEN y
    ELSE Norm(x[1] * y[2] + y[1] * x[2], x[2] * y[2])

Neg(x) == <<-x[1], x[2]>>

Sub(x, y) == Add(x, Neg(y))

Mul(x, y) ==
    IF IsNaN(x) \/ IsNaN(y) THEN NaN
    ELSE Norm(x[1] * y[1], x[2] * y[2])

\* float64 division does not raise: x/0 is +-inf, 0/0 is nan (a RuntimeWarning only)
TrueDivide(x, y) ==
    IF IsNaN(x) \/ IsNaN(y) THEN NaN
    ELSE IF IsInf(x) /\ IsInf(y) THEN NaN
    ELSE IF IsInf(y) THEN Zero
    ELSE IF y[1] = 0 THEN <<Sign(x[1]), 0>>
    ELSE IF IsInf(x) THEN <<x[1] * Sign(y[1]), 0>>
    ELSE Norm(x[1] * y[2], x[2] * y[1])

FAbs(x) == <<Abs(x[1]), x[2]>>

\* x < y on finite values
Less(x, y) == x[1] * y[2] < y[1] * x[2]

RECURSIVE SumSeq(_)
SumSeq(s) == IF s = <<>> THEN Zero ELSE Add(Head(s), SumSeq(Tail(s)))

-----------------------------------------------------------------------------
(* numpy arrays *)

None == [kind |-> "None", shape |-> <<>>, data |-> <<>>]

\* the function f over 1..n as a sequence, its elements evaluated once
Tuple(f) == f \o <<>>

Arr(shape, data) == [kind |-> "ndarray", shape |-> shape, data |-> Tuple(data)]

Scalar(x) == Arr(<<>>, <<x>>)

ndim(a) == Len(a.shape)

size(a) == Len(a.data)

\* a.reshape(1, -1)
reshape_row(a) == Arr(<<1, size(a)>>, a.data)

\* np.array(a, ndmin=2) as np.cov applies it: a 1-D array becomes one row
ndmin2(a) ==
    IF ndim(a) = 0 THEN Arr(<<1, 1>>, a.data)
    ELSE IF ndim(a) = 1 THEN Arr(<<1, a.shape[1]>>, a.data)
    ELSE a

At(a, i, j) == a.data[(i - 1) * a.shape[2] + j]

Row(a, i) == Tuple([j \in 1..a.shape[2] |-> At(a, i, j)])

Col(a, j) == Tuple([i \in 1..a.shape[1] |-> At(a, i, j)])

Flatten(rows, n, k) == [q \in 1..(n * k) |-> rows[((q - 1) \div k) + 1][((q - 1) % k) + 1]]

\* a 2-D array from a sequence of n rows of k values
FromRows(rows, n, k) == Arr(<<n, k>>, Flatten(rows, n, k))

np_transpose(a) ==
    Arr(<<a.shape[2], a.shape[1]>>,
        [q \in 1..size(a) |->
            At(a, ((q - 1) % a.shape[1]) + 1, ((q - 1) \div a.shape[1]) + 1)])

np_sum(a) == SumSeq(a.data)

np_mean(a) == TrueDivide(np_sum(a), Rat(size(a)))

Map1(f(_), a) == Arr(a.shape, [q \in 1..size(a) |-> f(a.data[q])])

\* broadcasting of shapes of at most two dimensions
Pad2(shape) ==
    IF Len(shape) = 0 THEN <<1, 1>>
    ELSE IF Len(shape) = 1 THEN <<1, shape[1]>>
    ELSE shape

Broadcastable(sa, sb) ==
    \A i \in 1..2 : Pad2(sa)[i] = Pad2(sb)[i] \/ Pad2(sa)[i] = 1 \/ Pad2(sb)[i] = 1

BroadcastShape(sa, sb) ==
    LET pa == Pad2(sa)
        pb == Pad2(sb)
        r == [i \in 1..2 |-> IF pa[i] = 1 THEN pb[i] ELSE pa[i]]
        nd == IF Len(sa) > Len(sb) THEN Len(sa) ELSE Len(sb)
    IN  SubSeq(r, 3 - nd, 2)

BAt(a, i, j) ==
    LET pa == Pad2(a.shape)
    IN  a.data[((IF pa[1] = 1 THEN 1 ELSE i) - 1) * pa[2] + (IF pa[2] = 1 THEN 1 ELSE j)]

\* a (op) b elementwise; the caller has checked Broadcastable
Elementwise(op(_, _), a, b) ==
    LET full == Pad2(BroadcastShape(a.shape, b.shape))
    IN  Arr(BroadcastShape(a.shape, b.shape),
            [q \in 1..(full[1] * full[2]) |->
                op(BAt(a, ((q - 1) \div full[2]) + 1, ((q - 1) % full[2]) + 1),
                   BAt(b, ((q - 1) \div full[2]) + 1, ((q - 1) % full[2]) + 1))])

Ok(v) == [err |-> "none", val |-> v]

Raise(e) == [err |-> e, val |-> None]

\* a - b, a + b, a * b on arrays: ValueError when the shapes do not broadcast
np_binary(op(_, _), a, b) ==
    IF Broadcastable(a.shape, b.shape) THEN Ok(Elementwise(op, a, b))
    ELSE Raise("ValueError")

Dot1(u, v) == SumSeq(Tuple([q \in 1..Len(u) |-> Mul(u[q], v[q])]))

\* np.dot(a, b) for a 2-D: b 0-d scales a, b 1-D gives the row-wise dot
\* products, b 2-D the matrix product; ValueError when shapes are not aligned
np_dot(a, b) ==
    IF ndim(b) = 0 \/ ndim(a) = 0 THEN Ok(Elementwise(Mul, a, b))
    ELSE IF ndim(b) = 1 THEN
        IF a.shape[2] # b.shape[1] THEN Raise("ValueError")
        ELSE Ok(Arr(<<a.shape[1]>>, [i \in 1..a.shape[1] |-> Dot1(Row(a, i), b.data)]))
    ELSE
        IF a.shape[2] # b.shape[1] THEN Raise("ValueError")
        ELSE Ok(Arr(<<a.shape[1], b.shape[2]>>,
                    [q \in 1..(a.shape[1] * b.shape[2]) |->
                        Dot1(Row(a, ((q - 1) \div b.shape[2]) + 1),
                             Col(b, ((q - 1) % b.shape[2]) + 1))]))

\* np.var(a): the population variance over all elements
np_var(a) ==
    LET mu == np_mean(a)
        dev(x) == Mul(Sub(x, mu), Sub(x, mu))
    IN  np_mean(Map1(dev, a))

\* np.cov(X, y)[0, 1] with numpy's default ddof=1: the sample covariance
np_cov01_sample(X, y) ==
    LET X2 == ndmin2(X)
        y2 == ndmin2(y)
    IN  IF X2.shape[2] # y2.shape[2] THEN Raise("ValueError")
        ELSE LET N == X2.shape[2]
                 stack == Arr(<<X2.shape[1] + y2.shape[1], N>>, X2.data \o y2.data)
                 r0 == Row(stack, 1)
                 r1 == Row(stack, 2)
                 m0 == TrueDivide(SumSeq(r0), Rat(N))
                 m1 == TrueDivide(SumSeq(r1), Rat(N))
                 prod == Tuple([q \in 1..N |-> Mul(Sub(r0[q], m0), Sub(r1[q], m1))])
             IN  Ok(Scalar(Mul(SumSeq(prod), TrueDivide(One, Rat(N - 1)))))

\* np.cov(X, y, ddof=0)[0, 1]: X and y are stacked as rows (ValueError when
\* their lengths differ); entry [0, 1] is the population covariance of row 0
\* and row 1 of the stack
np_cov01(X, y) ==
    LET X2 == ndmin2(X)
        y2 == ndmin2(y)
    IN  IF X2.shape[2] # y2.shape[2] THEN Raise("ValueError")
        ELSE LET N == X2.shape[2]
                 stack == Arr(<<X2.shape[1] + y2.shape[1], N>>, X2.data \o y2.data)
                 r0 == Row(stack, 1)
                 r1 == Row(stack, 2)
                 m0 == TrueDivide(SumSeq(r0), Rat(N))
                 m1 == TrueDivide(SumSeq(r1), Rat(N))
                 prod == Tuple([q \in 1..N |-> Mul(Sub(r0[q], m0), Sub(r1[q], m1))])
             IN  Ok(Scalar(Mul(SumSeq(prod), TrueDivide(One, Rat(N)))))

-----------------------------------------------------------------------------
(* numpy.linalg.inv *)

RECURSIVE IsPow2(_)
IsPow2(d) == d = 1 \/ (d % 2 = 0 /\ IsPow2(d \div 2))

\* a finite value float64 holds exactly (the values here are far below 2^53)
Representable(q) == IsFinite(q) /\ IsPow2(q[2])

\* An entry of the matrix being factorised: its value v in exact arithmetic,
\* whether float64 holds exactly that value (x), and the float64 computation
\* that produced it (e): two entries with equal e hold the same float64.
Leaf(v) == [v |-> v, x |-> TRUE, e |-> <<v>>]

Rounded(v, code, e1, e2) == [v |-> v, x |-> FALSE, e |-> <<code, e1, e2>>]

ExactZero(c) == c.x /\ c.v = Zero

\* a / piv as float64 computes it; nan stands for the unknown huge quotient by
\* a pivot that is zero in exact arithmetic
Quotient(a, piv) ==
    IF ExactZero(a) THEN Leaf(Zero)
    ELSE IF a.e = piv.e THEN Leaf(One)
    ELSE IF piv.v = Zero THEN Rounded(NaN, 1, a.e, piv.e)
    ELSE IF a.x /\ piv.x /\ Representable(TrueDivide(a.v, piv.v))
         THEN Leaf(TrueDivide(a.v, piv.v))
    ELSE Rounded(TrueDivide(a.v, piv.v), 1, a.e, piv.e)

Product(l, u) ==
    IF ExactZero(l) \/ ExactZero(u) THEN Leaf(Zero)
    ELSE IF l.x /\ l.v = One THEN u
    ELSE IF l.x /\ u.x THEN Leaf(Mul(l.v, u.v))
    ELSE Rounded(Mul(l.v, u.v), 2, l.e, u.e)

Difference(c, pr) ==
    IF ExactZero(pr) THEN c
    ELSE IF c.e = pr.e THEN Leaf(Zero)
    ELSE IF c.x /\ pr.x THEN Leaf(Sub(c.v, pr.v))
    ELSE Rounded(Sub(c.v, pr.v), 3, c.e, pr.e)

\* one step of the elimination: rows j and p swapped, then column j cleared
\* below the pivot
Eliminate(A, j, p, K) ==
    LET B == [A EXCEPT ![j] = A[p], ![p] = A[j]]
    IN  Tuple([i \in 1..K |->
            IF i <= j THEN B[i]
            ELSE Tuple([k \in 1..K |->
                    IF k <= j THEN B[i][k]
                    ELSE Difference(B[i][k], Product(Quotient(B[i][j], B[j][j]), B[j][k]))])])

\* The LU factorisation with partial pivoting behind numpy.linalg.inv (LAPACK
\* gesv), columns j..K: the set of ways it can end.  "singular": a pivot
\* column that is exactly zero in float64, which LAPACK reports and numpy
\* raises as LinAlgError.  "ok": every pivot is non-zero in exact arithmetic.
\* "rounding": a pivot that is zero in exact arithmetic was computed with
\* rounding and held a tiny non-zero float64 (tiny), so the factorisation
\* went on and no error is reported.
RECURSIVE Getrf(_, _, _, _)
Getrf(A, j, K, tiny) ==
    IF j > K THEN {IF tiny THEN "rounding" ELSE "ok"}
    ELSE LET cand == j..K
             mag(i) == FAbs(A[i][j].v)
             p == CHOOSE i \in cand :
                     \A i2 \in cand : Less(mag(i2), mag(i)) \/ (mag(i2) = mag(i) /\ i <= i2)
         IN  IF \E i \in cand : IsNaN(A[i][j].v) THEN {"rounding"}
             ELSE IF A[p][j].v # Zero THEN Getrf(Eliminate(A, j, p, K), j + 1, K, tiny)
             ELSE {"singular"}
                  \cup UNION {Getrf(Eliminate(A, j, i, K), j + 1, K, TRUE) :
                                i \in {i2 \in cand : ~A[i2][j].x}}

\* the matrix without row i and column j, as a sequence of rows
Minor(M, i, j, K) ==
    Tuple([r \in 1..(K - 1) |->
        Tuple([c \in 1..(K - 1) |->
            M[IF r < i THEN r ELSE r + 1][IF c < j THEN c ELSE c + 1]])])

RECURSIVE Det(_, _)
Det(M, K) ==
    IF K = 1 THEN M[1][1]
    ELSE SumSeq(Tuple([j \in 1..K |->
            Mul(Mul(Rat(IF j % 2 = 1 THEN 1 ELSE -1), M[1][j]), Det(Minor(M, 1, j, K), K - 1))]))

Rows(a) == Tuple([i \in 1..a.shape[1] |-> Row(a, i)])

\* the exact inverse of a non-singular K x K matrix
Inverse(a) ==
    LET K == a.shape[1]
        M == Rows(a)
        d == Det(M, K)
        cof(i, j) == Mul(Rat(IF (i + j) % 2 = 0 THEN 1 ELSE -1),
                         IF K = 1 THEN One ELSE Det(Minor(M, i, j, K), K - 1))
    IN  FromRows([i \in 1..K |-> [j \in 1..K |-> TrueDivide(cof(j, i), d)]], K, K)

\* what a float64 inverse of a matrix that is singular in exact arithmetic may
\* hold when rounding hid the zero pivot: representatives of a finite value,
\* an infinity and nan
IllConditioned == {One, PosInf, NaN}

\* np.linalg.inv(a), a square: the set of possible outcomes
linalg_inv(a) ==
    LET K == a.shape[1]
        lu == Getrf(Tuple([i \in 1..K |-> Tuple([j \in 1..K |-> Leaf(At(a, i, j))])]),
                    1, K, FALSE)
    IN  (IF "ok" \in lu THEN {Ok(Inverse(a))} ELSE {})
        \cup (IF "singular" \in lu THEN {Raise("LinAlgError")} ELSE {})
        \cup (IF "rounding" \in lu
              THEN {Ok(Arr(a.shape, [q \in 1..size(a) |-> g])) : g \in IllConditioned}
              ELSE {})

-----------------------------------------------------------------------------
(* LinearRegressor *)

\* __init__
LinearRegressor == [coefficients |-> None, intercept |-> None]

Outcome(e, self) == [err |-> e, self |-> self]

\* fit_simple storing the coefficient before the lengths of X and y are checked
fit_simple_store_first(self, X, y) ==
    LET X1 == IF ndim(X) > 1 THEN reshape_row(X) ELSE X
        self1 == [self EXCEPT !.coefficients = Scalar(np_var(X1))]
        cov == np_cov01(X1, y)
    IN  IF cov.err # "none" THEN Outcome(cov.err, self1)
        ELSE LET self2 == [self1 EXCEPT !.coefficients =
                              Scalar(TrueDivide(cov.val.data[1], np_var(X1)))]
                 self3 == [self2 EXCEPT !.intercept =
                              Scalar(Sub(np_mean(y),
                                         Mul(np_mean(X1), self2.coefficients.data[1])))]
             IN  Outcome("none", self3)

fit_simple(self, X, y) ==
    LET X1 == IF ndim(X) > 1 THEN reshape_row(X) ELSE X
        cov == np_cov01(X1, y)
    IN  IF cov.err # "none" THEN Outcome(cov.err, self)
        ELSE LET self1 == [self EXCEPT !.coefficients =
                              Scalar(TrueDivide(cov.val.data[1], np_var(X1)))]
                 self2 == [self1 EXCEPT !.intercept =
                              Scalar(Sub(np_mean(y),
                                         Mul(np_mean(X1), self1.coefficients.data[1])))]
             IN  Outcome("none", self2)

\* np.concatenate((X, ones), axis=1): the ones column appended, not prepended
concatenate_ones_last(X) ==
    IF ndim(X) # 2 THEN Raise("ValueError")
    ELSE Ok(FromRows([i \in 1..X.shape[1] |-> Row(X, i) \o <<One>>],
                     X.shape[1], X.shape[2] + 1))

\* np.concatenate((ones, X), axis=1) with ones of shape (X.shape[0], 1)
concatenate_ones(X) ==
    IF ndim(X) # 2 THEN Raise("ValueError")
    ELSE Ok(FromRows([i \in 1..X.shape[1] |-> <<One>> \o Row(X, i)],
                     X.shape[1], X.shape[2] + 1))

\* the set of possible outcomes of fit_multiple
fit_multiple(self, X, y) ==
    LET Xa == concatenate_ones(X)
    IN  IF Xa.err # "none" THEN {Outcome(Xa.err, self)}
        ELSE LET Xtras == np_transpose(Xa.val)
                 gram == np_dot(Xtras, Xa.val).val
             IN  { IF term1.err # "none" THEN Outcome(term1.err, self)
                   ELSE LET w == np_dot(np_dot(term1.val, Xtras).val, y)
                        IN  IF w.err # "none" THEN Outcome(w.err, self)
                            ELSE LET self1 == [self EXCEPT !.intercept =
                                                  Scalar(w.val.data[1])]
                                     self2 == [self1 EXCEPT !.coefficients =
                                                  Arr(<<size(w.val) - 1>>, Tail(w.val.data))]
                                 IN  Outcome("none", self2)
                   : term1 \in linalg_inv(gram) }

\* predict without the raise: an unfitted model returns None
predict_unguarded(self, X) ==
    IF self.coefficients = None \/ self.intercept = None THEN Ok(None)
    ELSE IF ndim(X) = 1 THEN
        LET prod == np_binary(Mul, self.coefficients, X)
        IN  IF prod.err # "none" THEN prod
            ELSE np_binary(Add, self.intercept, prod.val)
    ELSE
        LET prod == np_dot(X, self.coefficients)
        IN  IF prod.err # "none" THEN prod
            ELSE np_binary(Add, self.intercept, prod.val)

predict(self, X) ==
    IF self.coefficients = None \/ self.intercept = None THEN Raise("ValueError")
    ELSE IF ndim(X) = 1 THEN
        LET prod == np_binary(Mul, self.coefficients, X)
        IN  IF prod.err # "none" THEN prod
            ELSE np_binary(Add, self.intercept, prod.val)
    ELSE
        LET prod == np_dot(X, self.coefficients)
        IN  IF prod.err # "none" THEN prod
            ELSE np_binary(Add, self.intercept, prod.val)

-----------------------------------------------------------------------------
(* evaluate_regression *)

\* np.sqrt, kept symbolic: the non-negative root of the radicand
np_sqrt(q) == [radicand |-> q]

NoMetrics == [R2 |-> NaN, RMSE |-> np_sqrt(NaN), MAE |-> NaN]

Square(x) == Mul(x, x)

evaluate_regression(y_true, y_pred) ==
    LET diff == np_binary(Sub, y_true, y_pred)
    IN  IF diff.err # "none" THEN [err |-> diff.err, val |-> NoMetrics]
        ELSE LET RSS == np_sum(Map1(Square, diff.val))
                 mu == np_mean(y_true)
                 dev(x) == Square(Sub(x, mu))
                 TSS == np_sum(Map1(dev, y_true))
                 r_squared == Sub(One, TrueDivide(RSS, TSS))
                 n == y_true.shape[1]
                 rmse == np_sqrt(Mul(TrueDivide(One, Rat(n)), RSS))
                 mae == Mul(TrueDivide(One, Rat(n)), np_sum(Map1(FAbs, diff.val)))
             IN  [err |-> "none", val |-> [R2 |-> r_squared, RMSE |-> rmse, MAE |-> mae]]

-----------------------------------------------------------------------------
(* Inputs *)

MaxLen == 3
MaxVal == 1
NumModels == 2

ModelIds == 1..NumModels

Values == {Rat(v) : v \in 0..MaxVal}

Vectors(n) == {Arr(<<n>>, d) : d \in [1..n -> Values]}

\* 1-D arrays of 1..MaxLen samples
Flat == UNION {Vectors(n) : n \in 1..MaxLen}

AsRow(a) == reshape_row(a)

AsColumn(a) == Arr(<<size(a), 1>>, a.data)

\* n x 2 design matrices of two indicator predictors
TwoColumn == UNION {{Arr(<<n, 2>>, d) : d \in [1..(2 * n) -> {Zero, One}]} : n \in 1..MaxLen}

SimpleX == Flat \cup {AsRow(a) : a \in Flat} \cup {AsColumn(a) : a \in Flat}

MultipleX == {AsColumn(a) : a \in Flat} \cup TwoColumn \cup Flat

PredictX == Flat \cup {AsColumn(a) : a \in Flat} \cup TwoColumn

PredictedY == Flat \cup {AsRow(a) : a \in Flat} \cup {AsColumn(a) : a \in Flat}

Vec(s) == Arr(<<Len(s)>>, [i \in 1..Len(s) |-> Rat(s[i])])

\* the data of the object-lifecycle specification: a line, a constant
\* predictor, a shorter vector, an invertible and a collinear indicator design
SampleFlat == {Vec(<<1, 2, 3>>), Vec(<<3, 3, 3>>), Vec(<<1, 2>>)}

SampleTwoColumn == {Arr(<<3, 2>>, <<Zero, Zero, One, Zero, Zero, One>>),
                    Arr(<<3, 2>>, <<Zero, One, Zero, One, One, Zero>>)}

SampleX == SampleFlat \cup {AsRow(a) : a \in SampleFlat} \cup {AsColumn(a) : a \in SampleFlat}
           \cup SampleTwoColumn

SampleY == {Vec(<<2, 4, 6>>), Vec(<<1, 1, 1>>), Vec(<<1, 2>>)}

-----------------------------------------------------------------------------
(* State: the LinearRegressor instances, and the last call with its outcome *)

Call(op, m, X, y, err, out, metrics) ==
    [op |-> op, m |-> m, X |-> X, y |-> y, err |-> err, out |-> out, metrics |-> metrics]

Init ==
    /\ models = [m \in ModelIds |-> LinearRegressor]
    /\ last = Call("init", 0, None, None, "none", None, NoMetrics)

\* fit_simple with coefficients and intercept as class attributes, shared by
\* every instance
FitSimpleShared(m, X, y) ==
    LET r == fit_simple(models[m], X, y)
    IN  /\ models' = [k \in ModelIds |-> r.self]
        /\ last' = Call("fit_simple", m, X, y, r.err, None, NoMetrics)

FitSimple(m, X, y) ==
    LET r == fit_simple(models[m], X, y)
    IN  /\ models' = [models EXCEPT ![m] = r.self]
        /\ last' = Call("fit_simple", m, X, y, r.err, None, NoMetrics)

FitMultiple(m, X, y) ==
    \E r \in fit_multiple(models[m], X, y) :
        /\ models' = [models EXCEPT ![m] = r.self]
        /\ last' = Call("fit_multiple", m, X, y, r.err, None, NoMetrics)

Predict(m, X) ==
    LET r == predict(models[m], X)
    IN  /\ last' = Call("predict", m, X, None, r.err, r.val, NoMetrics)
        /\ UNCHANGED models

Evaluate(y_true, y_pred) ==
    LET r == evaluate_regression(y_true, y_pred)
    IN  /\ last' = Call("evaluate_regression", 0, y_true, y_pred, r.err, None, r.val)
        /\ UNCHANGED models

\* one iteration of the loop of anscombe_quartet over a dataset with
\* predictor x and response y of the same length: a new model is fitted on
\* the 1 x n reshaped predictor, predicts on it, is stored under the dataset,
\* and its predictions are evaluated
AnscombeGroup(dataset, x, y) ==
    LET X == reshape_row(x)
        fit == fit_simple(LinearRegressor, X, y)
        y_pred == predict(fit.self, X)
        metrics == evaluate_regression(y, y_pred.val)
    IN  IF fit.err # "none" THEN
            /\ last' = Call("anscombe_quartet", dataset, X, y, fit.err, None, NoMetrics)
            /\ UNCHANGED models
        ELSE IF y_pred.err # "none" THEN
            /\ last' = Call("anscombe_quartet", dataset, X, y, y_pred.err, None, NoMetrics)
            /\ UNCHANGED models
        ELSE
            /\ models' = [models EXCEPT ![dataset] = fit.self]
            /\ last' = Call("anscombe_quartet", dataset, X, y, metrics.err, y_pred.val,
                            metrics.val)

\* the data of the harness specification: one predictor, flat and as a
\* column, and two responses of its length
GroupX == {Vec(<<1, 2, 3>>), AsColumn(Vec(<<1, 2, 3>>))}

GroupY == {Vec(<<2, 4, 6>>), Vec(<<1, 1, 1>>)}

\* The harness and direct calls, on NumModels instances
Next ==
    \/ \E m \in ModelIds, X \in GroupX, y \in GroupY : FitSimple(m, X, y)
    \/ \E m \in ModelIds, X \in GroupX, y \in GroupY : FitMultiple(m, X, y)
    \/ \E m \in ModelIds, X \in GroupX : Predict(m, X)
    \/ \E y_true \in GroupY, y_pred \in GroupX : Evaluate(y_true, y_pred)
    \/ \E m \in ModelIds, x \in GroupX, y \in GroupY :
          ndim(x) = 1 /\ AnscombeGroup(m, x, y)

Spec == Init /\ [][Next]_vars

\* The lifecycle of one instance: any sequence of fits and predictions
NextObject ==
    \/ \E X \in SampleX, y \in SampleY : FitSimple(1, X, y)
    \/ \E X \in SampleX, y \in SampleY : FitMultiple(1, X, y)
    \/ \E X \in SampleX : Predict(1, X)

SpecObject == Init /\ [][NextObject]_vars

\* One fit on a newly constructed model, over all bounded inputs
NextFit ==
    /\ last.op = "init"
    /\ \/ \E X \in SimpleX, y \in Flat : FitSimple(1, X, y)
       \/ \E X \in MultipleX, y \in Flat : FitMultiple(1, X, y)

SpecFit == Init /\ [][NextFit]_vars

\* A prediction over all bounded inputs, on a newly constructed model or
\* after one fit
NextPredict ==
    \/ /\ last.op = "init"
       /\ \/ \E X \in SampleX, y \in SampleY : FitSimple(1, X, y)
          \/ \E X \in SampleX, y \in SampleY : FitMultiple(1, X, y)
    \/ /\ last.op # "predict"
       /\ \E X \in PredictX : Predict(1, X)

SpecPredict == Init /\ [][NextPredict]_vars

\* One evaluation, over all bounded inputs
NextEval ==
    /\ last.op = "init"
    /\ \E y_true \in Flat, y_pred \in PredictedY : Evaluate(y_true, y_pred)

SpecEval == Init /\ [][NextEval]_vars

\* One fit or one evaluation, over all bounded inputs
SpecCall == Init /\ [][NextFit \/ NextEval]_vars

-----------------------------------------------------------------------------
(* Properties *)

Fitted(self) == self.coefficients # None /\ self.intercept # None

IsFit(op) == op \in {"fit_simple", "fit_multiple"}

Flattened(a) == Arr(<<size(a)>>, a.data)

IsColumn(a) == ndim(a) = 2 /\ a.shape[2] = 1

HoldsNonFinite(self) ==
    \/ \E q \in 1..size(self.coefficients) : ~IsFinite(self.coefficients.data[q])
    \/ \E q \in 1..size(self.intercept) : ~IsFinite(self.intercept.data[q])

\* C1: predict on a model on which no fit has completed fails with the
\* "model not fitted" ValueError, for every input X, and returns no predictions.
C1_UnfittedPredictFails ==
    (last.op = "predict" /\ ~Fitted(models[last.m]))
        => (last.err = "ValueError" /\ last.out = None)

C1_Witness ==
    /\ last.op = "predict"
    /\ models[1] = LinearRegressor
    /\ ndim(last.X) = 2
    /\ last.err = "ValueError"

\* C2: between operations, intercept and coefficients of every model are
\* either both unset or both set, whatever calls (failing ones included) came
\* before.
C2_BothOrNeither ==
    \A m \in ModelIds : (models[m].coefficients = None) <=> (models[m].intercept = None)

\* a fit that failed on a model fitted before
C2_Witness ==
    /\ IsFit(last.op)
    /\ last.err # "none"
    /\ Fitted(models[1])

\* C3: fit_simple on a predictor of n >= 2 equal values (zero variance) signals
\* an error and stores no infinite or nan parameter.
C3_ZeroVarianceSignalled ==
    (/\ last.op = "fit_simple"
     /\ size(last.X) >= 2
     /\ size(last.y) = size(last.X)
     /\ np_var(last.X) = Zero)
        => (last.err # "none" /\ ~HoldsNonFinite(models[last.m]))

TSS(y_true) ==
    LET mu == np_mean(y_true)
        dev(x) == Square(Sub(x, mu))
    IN  np_sum(Map1(dev, y_true))

\* C4: evaluate_regression on y_true of identical values (TSS = 0) fails or
\* returns an undefined (nan) R2, whatever y_pred is.
C4_UndefinedR2Signalled ==
    (last.op = "evaluate_regression" /\ TSS(last.X) = Zero)
        => (last.err # "none" \/ IsNaN(last.metrics.R2))

\* the number of samples of X: for fit_simple the values of the one predictor
\* (flat, 1 x n or n x 1), for fit_multiple the rows of the design matrix
Samples(op, X) == IF op = "fit_simple" THEN size(X) ELSE X.shape[1]

\* C5: inputs whose lengths or shapes do not match make the call fail:
\* fit_simple and fit_multiple when X has another number of samples than y,
\* evaluate_regression when y_true and y_pred differ in shape; nothing is
\* fitted or measured from them.
C5_ShapeMismatchFails ==
    /\ (IsFit(last.op) /\ Samples(last.op, last.X) # size(last.y))
          => (last.err # "none" /\ ~Fitted(models[last.m]))
    /\ (last.op = "evaluate_regression" /\ last.X.shape # last.y.shape)
          => last.err # "none"

Gram(X) ==
    LET Xa == concatenate_ones(X).val
    IN  np_dot(np_transpose(Xa), Xa).val

\* C6: fit_multiple fails with LinAlgError whenever the normal-equation matrix
\* of the ones-augmented design is singular, and stores nothing.
C6_SingularFails ==
    (/\ last.op = "fit_multiple"
     /\ ndim(last.X) = 2
     /\ size(last.y) = last.X.shape[1]
     /\ Det(Rows(Gram(last.X)), last.X.shape[2] + 1) = Zero)
        => (last.err = "LinAlgError" /\ ~Fitted(models[last.m]))

SinglePredictor(self) == Fitted(self) /\ size(self.coefficients) = 1

\* C7: on a fitted single-predictor model, predict on the n x 1 matrix of n
\* values returns what predict on the flat sequence returns: the length-n
\* sequence of intercept + coefficient * x[i].
C7_ColumnAgreesWithFlat ==
    (last.op = "predict" /\ IsColumn(last.X) /\ SinglePredictor(models[last.m]))
        => /\ last.err = "none"
           /\ last.out = predict(models[last.m], Flattened(last.X)).val
           /\ last.out = Arr(<<size(last.X)>>,
                             [i \in 1..size(last.X) |->
                                 Add(models[last.m].intercept.data[1],
                                     Mul(models[last.m].coefficients.data[1],
                                         last.X.data[i]))])

\* the line through the first sample and the first sample with another x:
\* its slope and its intercept
OtherIndex(x) == CHOOSE i \in 1..Len(x) : x[i] # x[1] /\ \A k \in 2..(i - 1) : x[k] = x[1]

Slope(x, y) ==
    TrueDivide(Sub(y[OtherIndex(x)], y[1]), Sub(x[OtherIndex(x)], x[1]))

Intercept(x, y) == Sub(y[1], Mul(Slope(x, y), x[1]))

\* y[i] = a + b * x[i] for every i, for some a and b
Noiseless(x, y) ==
    \A i \in 1..Len(x) : y[i] = Add(Intercept(x, y), Mul(Slope(x, y), x[i]))

\* C8: fit_simple on n >= 2 samples of non-zero variance with y = a + b * x
\* stores coefficient b and intercept a, for x flat and for x in the 1 x n
\* shape of the harness.
C8_RecoversLine ==
    (/\ last.op = "fit_simple"
     /\ ndim(last.X) = 1 \/ last.X.shape[1] = 1
     /\ size(last.X) >= 2
     /\ size(last.y) = size(last.X)
     /\ np_var(last.X) # Zero
     /\ Noiseless(last.X.data, last.y.data))
        => /\ last.err = "none"
           /\ models[last.m].coefficients = Scalar(Slope(last.X.data, last.y.data))
           /\ models[last.m].intercept = Scalar(Intercept(last.X.data, last.y.data))

C8_Witness ==
    /\ last.op = "fit_simple"
    /\ last.X.shape = <<1, MaxLen>>
    /\ size(last.y) = MaxLen
    /\ np_var(last.X) # Zero
    /\ Noiseless(last.X.data, last.y.data)
    /\ models[1].coefficients = Scalar(Rat(-1))
    /\ models[1].intercept = Scalar(One)

\* C9: on n >= 2 samples of one predictor with non-zero variance,
\* fit_multiple on the n x 1 matrix stores the intercept and the coefficient
\* value that fit_simple stores on the flat vector.
C9_MultipleReducesToSimple ==
    (/\ last.op = "fit_multiple"
     /\ IsColumn(last.X)
     /\ size(last.X) >= 2
     /\ size(last.y) = size(last.X)
     /\ np_var(last.X) # Zero)
        => LET simple == fit_simple(LinearRegressor, Flattened(last.X), last.y).self
           IN  /\ last.err = "none"
               /\ models[last.m].intercept = simple.intercept
               /\ models[last.m].coefficients = Arr(<<1>>, simple.coefficients.data)

C9_Witness ==
    /\ last.op = "fit_multiple"
    /\ last.X.shape = <<MaxLen, 1>>
    /\ last.err = "none"
    /\ models[1].intercept = Scalar(Norm(1, 2))
    /\ models[1].coefficients = Arr(<<1>>, <<Norm(1, 2)>>)

\* C10: only a successful fit changes a model, and only the model it is
\* called on: predict and evaluate_regression, and every failing call, leave
\* all models as they were; a fit of one instance (a direct call or a harness
\* group) leaves the other instances as they were.
C10_OnlyFitChangesItsModel ==
    [][/\ last'.op \in {"predict", "evaluate_regression"} => models' = models
       /\ last'.err # "none" => models' = models
       /\ \A m \in ModelIds :
             models'[m] # models[m]
                => /\ last'.op \in {"fit_simple", "fit_multiple", "anscombe_quartet"}
                   /\ last'.m = m]_vars

\* a prediction on one fitted instance while another instance holds other
\* parameters
C10_Witness ==
    /\ last.op = "predict"
    /\ last.err = "none"
    /\ Fitted(models[1])
    /\ Fitted(models[2])
    /\ models[1] # models[2]

====
